---- MODULE Spec2Model ----
(***************************************************************************)
(* A state-machine model of src/main.cpp: the benchmark harness            *)
(* (Benchmark::Run, Benchmark::RunWithThreads), the four RunThread bodies, *)
(* GetName / GetMemoryOrderRepr, and main.                                 *)
(*                                                                         *)
(* The main thread is modelled by its program counter pc; every worker     *)
(* thread is one element of the vector thr (the std::thread together with  *)
(* the thread it owns).  Workers run interleaved with each other and with  *)
(* the main thread from the moment emplace_back creates them.              *)
(***************************************************************************)
EXTENDS Integers, Sequences, FiniteSets, TLC

\* Number of increments per worker (500'000'000 in the source, scaled down).
Iterations == 2

\* The argument main passes to Run (10 in the source, scaled down).
MaxThreads == 2

\* The values the source gives the two scaled-down bounds above.
SourceIterations == 500000000

SourceMaxNumThreads == 10

\* Mutant of MEMORY_ORDER_LIST: one order left out of the list.
MEMORY_ORDER_LIST_NoConsume ==
  << "memory_order_relaxed", "memory_order_acquire", "memory_order_release",
     "memory_order_acq_rel", "memory_order_seq_cst" >>

\* The six memory orders, in the order of the MEMORY_ORDER_LIST macro.
MEMORY_ORDER_LIST ==
  << "memory_order_relaxed", "memory_order_consume", "memory_order_acquire",
     "memory_order_release", "memory_order_acq_rel", "memory_order_seq_cst" >>

\* One benchmark object of class t (with template argument order).
ADD_BENCHMARK(t, order) == [class |-> t, Order |-> order]

\* The vector main builds, in push_back order.
benchmarks ==
  << ADD_BENCHMARK("NonAtomicBaseline", "none"),
     ADD_BENCHMARK("NonAtomicBenchmark", "none") >>
  \o [k \in 1..Len(MEMORY_ORDER_LIST) |->
        ADD_BENCHMARK("AtomicBaseline", MEMORY_ORDER_LIST[k])]
  \o [k \in 1..Len(MEMORY_ORDER_LIST) |->
        ADD_BENCHMARK("AtomicBenchmark", MEMORY_ORDER_LIST[k])]

\* The benchmark objects that have a _counter member.
CounterOwners ==
  {b \in DOMAIN benchmarks :
     benchmarks[b].class \in {"NonAtomicBenchmark", "AtomicBenchmark"}}

\* Mutant of GetMemoryOrderRepr: a case copied without changing its string.
GetMemoryOrderRepr_CopyPaste(order) ==
  CASE order = "memory_order_relaxed" -> "relaxed"
    [] order = "memory_order_consume" -> "acquire"
    [] order = "memory_order_acquire" -> "acquire"
    [] order = "memory_order_release" -> "release"
    [] order = "memory_order_acq_rel" -> "acq_rel"
    [] order = "memory_order_seq_cst" -> "seq_cst"

\* The switch of GetMemoryOrderRepr; the default branch is unreachable.
GetMemoryOrderRepr(order) ==
  CASE order = "memory_order_relaxed" -> "relaxed"
    [] order = "memory_order_consume" -> "consume"
    [] order = "memory_order_acquire" -> "acquire"
    [] order = "memory_order_release" -> "release"
    [] order = "memory_order_acq_rel" -> "acq_rel"
    [] order = "memory_order_seq_cst" -> "seq_cst"

NonAtomicBaseline_GetName == "Non-atomic Baseline"

NonAtomicBenchmark_GetName == "Non-atomic Benchmark"

AtomicBaseline_GetName(Order) ==
  ("Atomic Baseline (" \o GetMemoryOrderRepr(Order)) \o ")"

AtomicBenchmark_GetName(Order) ==
  ("Atomic Benchmark (" \o GetMemoryOrderRepr(Order)) \o ")"

\* Virtual dispatch of GetName on benchmark object b.
GetName(b) ==
  CASE benchmarks[b].class = "NonAtomicBaseline" -> NonAtomicBaseline_GetName
    [] benchmarks[b].class = "NonAtomicBenchmark" -> NonAtomicBenchmark_GetName
    [] benchmarks[b].class = "AtomicBaseline" ->
         AtomicBaseline_GetName(benchmarks[b].Order)
    [] benchmarks[b].class = "AtomicBenchmark" ->
         AtomicBenchmark_GetName(benchmarks[b].Order)

VARIABLES
  pc,             \* position of the main thread
  bi,             \* main: index of b in the range-for over benchmarks
  cfgMax,         \* main: the argument it passes to Run
  maxNumThreads,  \* Run: its parameter
  threads,        \* Run: its loop variable
  numThreads,     \* RunWithThreads: its parameter
  i,              \* RunWithThreads: index of the spawn loop
  j,              \* RunWithThreads: position of the join loop (1-based)
  thr,            \* RunWithThreads: the vector of threads
  startTime,      \* RunWithThreads: startTime
  endTime,        \* RunWithThreads: endTime
  _counter,       \* the _counter member of each benchmark that has one
  coutBuf,        \* text written to std::cout and not yet flushed
  out,            \* text that has reached standard output
  exitCode,       \* the value main returned (-1: has not returned)
  now,            \* the clock: the number of steps taken so far
  calls,          \* history: the RunWithThreads calls made, <<b, n>>
  nameLog,        \* history: what GetName returned, <<b, name>>
  finished,       \* history: how many workers have returned from RunThread
  doneAt          \* history: the loop indices workers returned with

vars ==
  << pc, bi, cfgMax, maxNumThreads, threads, numThreads, i, j, thr,
     startTime, endTime, _counter, coutBuf, out, exitCode, now, calls,
     nameLog, finished, doneAt >>


\* A std::thread just constructed by emplace_back: the lambda has captured
\* this and the new thread stands at the head of RunThread's loop, with its
\* locals (i, and the baselines' private counter) initialised to 0.
NewThread(b) ==
  [this |-> b, pc |-> "loop", i |-> 0, counter |-> 0, tmp |-> 0,
   joined |-> FALSE]

\* Mutant of Joinable: the join does not wait for the thread (a detach).
Joinable_NoWait(t) == TRUE

\* Mutant of Joinable: the join never returns.
Joinable_Never(t) == FALSE

\* join() returns once the thread has finished executing.
Joinable(t) == t.pc = "done"

\* Mutant of fetch_add: the operand is subtracted.
fetch_add_Sub(c, v) == c - v

\* std::atomic fetch_add(v): one indivisible read-modify-write.
fetch_add(c, v) == c + v

\* high_resolution_clock::now(), in milliseconds.
Clock == now

\* Every step of any thread takes one unit of time.
Tick == now' = now + 1

\* The state main starts RunWithThreads / Run / the range-for from.
Fresh ==
  /\ thr = << >>
  /\ i = 0
  /\ j = 0
  /\ startTime = 0
  /\ endTime = 0
  /\ _counter = [b \in CounterOwners |-> 0]
  /\ coutBuf = << >>
  /\ out = << >>
  /\ exitCode = -1
  /\ now = 0
  /\ nameLog = {}
  /\ finished = 0
  /\ doneAt = {}

\* main, after the vector of 14 benchmarks has been built (lines 158-185).
Init ==
  /\ pc = "main_for"
  /\ bi = 1
  /\ cfgMax = MaxThreads
  /\ maxNumThreads = 0
  /\ threads = 0
  /\ numThreads = 0
  /\ calls = << >>
  /\ Fresh

\* main with any configured maximum thread count, 0 included.
InitSweep ==
  /\ pc = "main_for"
  /\ bi = 1
  /\ cfgMax \in 0..MaxThreads
  /\ maxNumThreads = 0
  /\ threads = 0
  /\ numThreads = 0
  /\ calls = << >>
  /\ Fresh

\* A direct call RunWithThreads(n) on a freshly constructed benchmark.
InitTrial ==
  /\ pc = "rwt_print"
  /\ bi \in DOMAIN benchmarks
  /\ cfgMax = 0
  /\ maxNumThreads = 0
  /\ threads = 0
  /\ numThreads \in 1..MaxThreads
  /\ calls = << <<bi, numThreads>> >>
  /\ Fresh

----------------------------------------------------------------------------
(* main *)

\* Mutant of main_For: the sweep of Run starts at 0 threads.
main_For_FromZero ==
  /\ pc = "main_for"
  /\ bi <= Len(benchmarks)
  /\ maxNumThreads' = cfgMax
  /\ threads' = 0
  /\ pc' = "Run_for"
  /\ Tick
  /\ UNCHANGED << finished, doneAt >>
  /\ UNCHANGED << bi, cfgMax, numThreads, i, j, thr, startTime, endTime,
                  _counter, coutBuf, out, exitCode, calls, nameLog >>

\* Lines 187-188: the range-for has a next benchmark b; call b->Run(10);
\* Run initialises its loop variable threads to 1.
main_For ==
  /\ pc = "main_for"
  /\ bi <= Len(benchmarks)
  /\ maxNumThreads' = cfgMax
  /\ threads' = 1
  /\ pc' = "Run_for"
  /\ Tick
  /\ UNCHANGED << finished, doneAt >>
  /\ UNCHANGED << bi, cfgMax, numThreads, i, j, thr, startTime, endTime,
                  _counter, coutBuf, out, exitCode, calls, nameLog >>

\* Lines 187, 191: the range-for is exhausted; return 0.
main_Return ==
  /\ pc = "main_for"
  /\ bi > Len(benchmarks)
  /\ exitCode' = 0
  /\ pc' = "exit"
  /\ Tick
  /\ UNCHANGED << finished, doneAt >>
  /\ UNCHANGED << bi, cfgMax, maxNumThreads, threads, numThreads, i, j, thr,
                  startTime, endTime, _counter, coutBuf, out, calls,
                  nameLog >>

----------------------------------------------------------------------------
(* Benchmark::Run *)

\* Mutant of Run_LoopTest: the body runs once before the bound is tested.
Run_LoopTest_DoWhile == threads = 1 \/ threads <= maxNumThreads

\* Mutant of Run_LoopTest: the sweep runs one trial past the maximum.
Run_LoopTest_OneMore == threads <= maxNumThreads + 1

\* Mutant of Run_LoopTest: a strict bound, which drops the last trial.
Run_LoopTest_Strict == threads < maxNumThreads

\* Line 18: the loop test of Run.
Run_LoopTest == threads <= maxNumThreads

\* Lines 18-19: the loop test holds; call RunWithThreads(threads).
Run_For ==
  /\ pc = "Run_for"
  /\ Run_LoopTest
  /\ numThreads' = threads
  /\ calls' = Append(calls, <<bi, threads>>)
  /\ pc' = "rwt_print"
  /\ Tick
  /\ UNCHANGED << finished, doneAt >>
  /\ UNCHANGED << bi, cfgMax, maxNumThreads, threads, i, j, thr, startTime,
                  endTime, _counter, coutBuf, out, exitCode, nameLog >>

\* Lines 18, 21: the loop is over; Run returns and main moves to the next b.
Run_Return ==
  /\ pc = "Run_for"
  /\ ~Run_LoopTest
  /\ bi' = bi + 1
  /\ pc' = "main_for"
  /\ Tick
  /\ UNCHANGED << finished, doneAt >>
  /\ UNCHANGED << cfgMax, maxNumThreads, threads, numThreads, i, j, thr,
                  startTime, endTime, _counter, coutBuf, out, exitCode,
                  calls, nameLog >>

\* Line 44 and the ++threads of line 18: RunWithThreads returns (its vector
\* of threads is destroyed) and the loop of Run steps.
Run_Next ==
  /\ pc = "rwt_return"
  /\ thr' = << >>
  /\ threads' = threads + 1
  /\ pc' = "Run_for"
  /\ Tick
  /\ UNCHANGED << finished, doneAt >>
  /\ UNCHANGED << bi, cfgMax, maxNumThreads, numThreads, i, j, startTime,
                  endTime, _counter, coutBuf, out, exitCode, calls,
                  nameLog >>

----------------------------------------------------------------------------
(* Benchmark::RunWithThreads *)

\* The text of line 24.
Prefix(name, n) == [kind |-> "prefix", name |-> name, numThreads |-> n]

\* The text of line 43 (the clock counts milliseconds, so dur /
\* milliseconds(1) is the difference of the two time stamps).
Suffix(start, end) == [kind |-> "suffix", ms |-> end - start]

\* Line 24: std::cout << GetName() << ": numThreads = " << numThreads << " ... ".
RunWithThreads_Print ==
  /\ pc = "rwt_print"
  /\ coutBuf' = Append(coutBuf, Prefix(GetName(bi), numThreads))
  /\ nameLog' = nameLog \cup {<<bi, GetName(bi)>>}
  /\ pc' = "rwt_flush"
  /\ Tick
  /\ UNCHANGED << finished, doneAt >>
  /\ UNCHANGED << bi, cfgMax, maxNumThreads, threads, numThreads, i, j, thr,
                  startTime, endTime, _counter, out, exitCode, calls >>

\* Mutant of RunWithThreads_Flush: the flush left out.
RunWithThreads_Flush_Missing ==
  /\ pc = "rwt_flush"
  /\ pc' = "rwt_start"
  /\ Tick
  /\ UNCHANGED << finished, doneAt >>
  /\ UNCHANGED << bi, cfgMax, maxNumThreads, threads, numThreads, i, j, thr,
                  startTime, endTime, _counter, coutBuf, out, exitCode, calls,
                  nameLog >>

\* Line 25: std::cout.flush().
RunWithThreads_Flush ==
  /\ pc = "rwt_flush"
  /\ out' = out \o coutBuf
  /\ coutBuf' = << >>
  /\ pc' = "rwt_start"
  /\ Tick
  /\ UNCHANGED << finished, doneAt >>
  /\ UNCHANGED << bi, cfgMax, maxNumThreads, threads, numThreads, i, j, thr,
                  startTime, endTime, _counter, exitCode, calls, nameLog >>

\* Mutant of RunWithThreads_Start: the shared counter reset to 0 at the
\* start of every trial.
RunWithThreads_Start_Reset ==
  /\ pc = "rwt_start"
  /\ thr' = << >>
  /\ startTime' = Clock
  /\ i' = 0
  /\ pc' = "rwt_spawn"
  /\ _counter' = [b \in CounterOwners |-> IF b = bi THEN 0 ELSE _counter[b]]
  /\ Tick
  /\ UNCHANGED << finished, doneAt >>
  /\ UNCHANGED << bi, cfgMax, maxNumThreads, threads, numThreads, j, endTime,
                  coutBuf, out, exitCode, calls, nameLog >>

\* Lines 27-30: the empty vector, and startTime.
RunWithThreads_Start ==
  /\ pc = "rwt_start"
  /\ thr' = << >>
  /\ startTime' = Clock
  /\ i' = 0
  /\ pc' = "rwt_spawn"
  /\ Tick
  /\ UNCHANGED << finished, doneAt >>
  /\ UNCHANGED << bi, cfgMax, maxNumThreads, threads, numThreads, j, endTime,
                  _counter, coutBuf, out, exitCode, calls, nameLog >>

\* Mutant of Spawn_LoopTest: an off-by-one loop bound.
Spawn_LoopTest_OffByOne == i <= numThreads

\* Line 32: the loop test of the spawn loop.
Spawn_LoopTest == i < numThreads

\* Lines 32-34: the spawn loop; one iteration, or its exit to the join loop.
RunWithThreads_Spawn ==
  /\ pc = "rwt_spawn"
  /\ IF Spawn_LoopTest
       THEN /\ thr' = Append(thr, NewThread(bi))
            /\ i' = i + 1
            /\ UNCHANGED << pc, j >>
       ELSE /\ pc' = "rwt_join"
            /\ j' = 1
            /\ UNCHANGED << thr, i >>
  /\ Tick
  /\ UNCHANGED << finished, doneAt >>
  /\ UNCHANGED << bi, cfgMax, maxNumThreads, threads, numThreads, startTime,
                  endTime, _counter, coutBuf, out, exitCode, calls, nameLog >>

\* Mutant of RunWithThreads_Join: only the first thread is joined.
RunWithThreads_Join_FirstOnly ==
  /\ pc = "rwt_join"
  /\ IF j <= Len(thr) /\ j = 1
       THEN /\ Joinable(thr[j])
            /\ thr' = [thr EXCEPT ![j].joined = TRUE]
            /\ j' = j + 1
            /\ UNCHANGED pc
       ELSE /\ pc' = "rwt_end"
            /\ UNCHANGED << thr, j >>
  /\ Tick
  /\ UNCHANGED << finished, doneAt >>
  /\ UNCHANGED << bi, cfgMax, maxNumThreads, threads, numThreads, i,
                  startTime, endTime, _counter, coutBuf, out, exitCode, calls,
                  nameLog >>

\* Lines 36-38: the join loop; t.join() blocks until t has finished.
RunWithThreads_Join ==
  /\ pc = "rwt_join"
  /\ IF j <= Len(thr)
       THEN /\ Joinable(thr[j])
            /\ thr' = [thr EXCEPT ![j].joined = TRUE]
            /\ j' = j + 1
            /\ UNCHANGED pc
       ELSE /\ pc' = "rwt_end"
            /\ UNCHANGED << thr, j >>
  /\ Tick
  /\ UNCHANGED << finished, doneAt >>
  /\ UNCHANGED << bi, cfgMax, maxNumThreads, threads, numThreads, i,
                  startTime, endTime, _counter, coutBuf, out, exitCode, calls,
                  nameLog >>

\* Lines 40-41: endTime.
RunWithThreads_End ==
  /\ pc = "rwt_end"
  /\ endTime' = Clock
  /\ pc' = "rwt_report"
  /\ Tick
  /\ UNCHANGED << finished, doneAt >>
  /\ UNCHANGED << bi, cfgMax, maxNumThreads, threads, numThreads, i, j, thr,
                  startTime, _counter, coutBuf, out, exitCode, calls,
                  nameLog >>

\* Line 43: the duration, " ms" and std::endl, which flushes.
RunWithThreads_Report ==
  /\ pc = "rwt_report"
  /\ out' = (out \o coutBuf) \o << Suffix(startTime, endTime) >>
  /\ coutBuf' = << >>
  /\ pc' = "rwt_return"
  /\ Tick
  /\ UNCHANGED << finished, doneAt >>
  /\ UNCHANGED << bi, cfgMax, maxNumThreads, threads, numThreads, i, j, thr,
                  startTime, endTime, _counter, exitCode, calls, nameLog >>

----------------------------------------------------------------------------
(* The worker threads: RunThread of each class, run by thread w of thr. *)

Class(w) == benchmarks[thr[w].this].class

\* Mutant of LoopTest: an off-by-one loop bound.
LoopTest_OffByOne(k) == k <= Iterations

\* The loop test of every RunThread, on its loop index k.
LoopTest(k) == k < Iterations

\* RunThread returns in thread w, and the thread finishes.
Return(w) ==
  /\ thr' = [thr EXCEPT ![w].pc = "done"]
  /\ finished' = finished + 1
  /\ doneAt' = doneAt \cup {thr[w].i}

\* What a worker's step leaves alone.
WorkerFrame ==
  UNCHANGED << pc, bi, cfgMax, maxNumThreads, threads, numThreads, i, j,
               startTime, endTime, coutBuf, out, exitCode, calls, nameLog >>

\* Mutant of NonAtomicBaseline_RunThread: the counter declared static, so
\* that every worker increments the same storage.
NonAtomicBaseline_RunThread_Static(w) ==
  /\ Class(w) = "NonAtomicBaseline"
  /\ thr[w].pc = "loop"
  /\ IF LoopTest(thr[w].i)
       THEN /\ thr' = [k \in DOMAIN thr |->
                         IF k = w
                           THEN [thr[k] EXCEPT !.counter = @ + 1,
                                               !.i = @ + 1]
                           ELSE [thr[k] EXCEPT !.counter = @ + 1]]
            /\ UNCHANGED << finished, doneAt >>
       ELSE Return(w)
  /\ Tick
  /\ UNCHANGED _counter
  /\ WorkerFrame

\* Lines 60-65: the loop test, ++counter on the thread's own volatile local
\* and ++i.  No other thread can reach the local, so its load and store are
\* one step.
NonAtomicBaseline_RunThread(w) ==
  /\ Class(w) = "NonAtomicBaseline"
  /\ thr[w].pc = "loop"
  /\ IF LoopTest(thr[w].i)
       THEN /\ thr' = [thr EXCEPT ![w].counter = @ + 1, ![w].i = @ + 1]
            /\ UNCHANGED << finished, doneAt >>
       ELSE Return(w)
  /\ Tick
  /\ UNCHANGED _counter
  /\ WorkerFrame

\* Lines 81-82: the loop test and the read half of ++_counter (a volatile,
\* non-atomic member: the load and the store are separate accesses).
NonAtomicBenchmark_Read(w) ==
  /\ Class(w) = "NonAtomicBenchmark"
  /\ thr[w].pc = "loop"
  /\ IF LoopTest(thr[w].i)
       THEN /\ thr' = [thr EXCEPT ![w].tmp = _counter[thr[w].this],
                                  ![w].pc = "write"]
            /\ UNCHANGED << finished, doneAt >>
       ELSE Return(w)
  /\ Tick
  /\ UNCHANGED _counter
  /\ WorkerFrame

\* Mutant of NonAtomicBenchmark_Write: the value read is stored back
\* without the increment.
NonAtomicBenchmark_Write_NoIncrement(w) ==
  /\ Class(w) = "NonAtomicBenchmark"
  /\ thr[w].pc = "write"
  /\ _counter' = [_counter EXCEPT ![thr[w].this] = thr[w].tmp]
  /\ thr' = [thr EXCEPT ![w].i = @ + 1, ![w].pc = "loop"]
  /\ UNCHANGED << finished, doneAt >>
  /\ Tick
  /\ WorkerFrame

\* Lines 81-82: the write half of ++_counter, and ++i.
NonAtomicBenchmark_Write(w) ==
  /\ Class(w) = "NonAtomicBenchmark"
  /\ thr[w].pc = "write"
  /\ _counter' = [_counter EXCEPT ![thr[w].this] = thr[w].tmp + 1]
  /\ thr' = [thr EXCEPT ![w].i = @ + 1, ![w].pc = "loop"]
  /\ UNCHANGED << finished, doneAt >>
  /\ Tick
  /\ WorkerFrame

\* Mutant of AtomicBaseline_RunThread: the counter is an object outside the
\* thread (here the first _counter member there is) instead of a local.
AtomicBaseline_RunThread_Global(w) ==
  /\ Class(w) = "AtomicBaseline"
  /\ thr[w].pc = "loop"
  /\ IF LoopTest(thr[w].i)
       THEN /\ thr' = [thr EXCEPT ![w].i = @ + 1]
            /\ _counter' =
                 [_counter EXCEPT ![CHOOSE b \in CounterOwners : TRUE] =
                                     fetch_add(@, 1)]
            /\ UNCHANGED << finished, doneAt >>
       ELSE /\ Return(w)
            /\ UNCHANGED _counter
  /\ Tick
  /\ WorkerFrame

\* Lines 121-126: fetch_add on the thread's own local atomic.
AtomicBaseline_RunThread(w) ==
  /\ Class(w) = "AtomicBaseline"
  /\ thr[w].pc = "loop"
  /\ IF LoopTest(thr[w].i)
       THEN /\ thr' = [thr EXCEPT ![w].counter = fetch_add(@, 1),
                                  ![w].i = @ + 1]
            /\ UNCHANGED << finished, doneAt >>
       ELSE Return(w)
  /\ Tick
  /\ UNCHANGED _counter
  /\ WorkerFrame

\* Mutant of AtomicBenchmark_RunThread: a load followed by a store in place
\* of fetch_add.
AtomicBenchmark_RunThread_Racy(w) ==
  /\ Class(w) = "AtomicBenchmark"
  /\ \/ /\ thr[w].pc = "loop"
        /\ IF LoopTest(thr[w].i)
             THEN /\ thr' = [thr EXCEPT ![w].tmp = _counter[thr[w].this],
                                        ![w].pc = "write"]
                  /\ UNCHANGED << finished, doneAt >>
             ELSE Return(w)
        /\ UNCHANGED _counter
     \/ /\ thr[w].pc = "write"
        /\ _counter' = [_counter EXCEPT ![thr[w].this] = thr[w].tmp + 1]
        /\ thr' = [thr EXCEPT ![w].i = @ + 1, ![w].pc = "loop"]
        /\ UNCHANGED << finished, doneAt >>
  /\ Tick
  /\ WorkerFrame

\* Lines 145-149: fetch_add on the shared atomic member.
AtomicBenchmark_RunThread(w) ==
  /\ Class(w) = "AtomicBenchmark"
  /\ thr[w].pc = "loop"
  /\ IF LoopTest(thr[w].i)
       THEN /\ _counter' = [_counter EXCEPT ![thr[w].this] = fetch_add(@, 1)]
            /\ thr' = [thr EXCEPT ![w].i = @ + 1]
            /\ UNCHANGED << finished, doneAt >>
       ELSE /\ Return(w)
            /\ UNCHANGED _counter
  /\ Tick
  /\ WorkerFrame

\* Virtual dispatch of RunThread in thread w (line 33's lambda).
RunThread(w) ==
  /\ w \in DOMAIN thr
  /\ \/ NonAtomicBaseline_RunThread(w)
     \/ NonAtomicBenchmark_Read(w)
     \/ NonAtomicBenchmark_Write(w)
     \/ AtomicBaseline_RunThread(w)
     \/ AtomicBenchmark_RunThread(w)

----------------------------------------------------------------------------
(* Specifications *)

RunWithThreads ==
  \/ RunWithThreads_Print
  \/ RunWithThreads_Flush
  \/ RunWithThreads_Start
  \/ RunWithThreads_Spawn
  \/ RunWithThreads_Join
  \/ RunWithThreads_End
  \/ RunWithThreads_Report

\* The steps of the main thread.
MainThread ==
  \/ main_For
  \/ main_Return
  \/ Run_For
  \/ Run_Return
  \/ Run_Next
  \/ RunWithThreads

Next ==
  \/ MainThread
  \/ \E w \in 1..MaxThreads : RunThread(w)

\* One call of RunWithThreads, and the workers it creates.
NextTrial ==
  \/ RunWithThreads
  \/ \E w \in 1..MaxThreads : RunThread(w)

\* The program: main runs every benchmark with the configured maximum.
Spec == Init /\ [][Next]_vars

\* The program with any configured maximum thread count.
SpecSweep == InitSweep /\ [][Next]_vars

\* RunWithThreads(n) called once on a freshly constructed benchmark.
SpecTrial == InitTrial /\ [][NextTrial]_vars

\* The scheduler never stops the program while some thread can take a step.
\* (Fairness to each thread separately implies this: a thread that can step
\* stays able to until it does.)
Fairness == WF_vars(Next)

\* The program under a fair scheduler.
FairSpec == Init /\ [][Next]_vars /\ Fairness

----------------------------------------------------------------------------
(* Properties *)

\* The main thread is inside RunWithThreads and has not yet taken endTime.
BeforeEnd == pc \in {"rwt_print", "rwt_flush", "rwt_start", "rwt_spawn",
                     "rwt_join"}

\* The main thread has left the join loop of RunWithThreads.
AfterJoin == pc \in {"rwt_end", "rwt_report", "rwt_return"}

\* Every thread of the vector has run RunThread to its end and been joined.
AllJoined ==
  /\ Len(thr) = numThreads
  /\ \A w \in DOMAIN thr : thr[w].pc = "done" /\ thr[w].joined

\* The durations written so far, flushed or not.
Reported == {k \in DOMAIN out : out[k].kind = "suffix"}

\* The increments the first k threads of the vector have completed.
RECURSIVE Increments(_)
Increments(k) == IF k = 0 THEN 0 ELSE thr[k].i + Increments(k - 1)

\* C1: RunWithThreads(n) spawns exactly n worker threads, each running the
\* RunThread of the benchmark it was called on, and neither reports the
\* duration nor returns before all n have finished and been joined.
C1_SpawnsAndJoinsAll ==
  /\ Len(thr) <= numThreads
  /\ \A w \in DOMAIN thr : thr[w].this = bi
  /\ pc = "rwt_join" => Len(thr) = numThreads
  /\ AfterJoin => AllJoined
  /\ (BeforeEnd \/ pc \in {"rwt_end", "rwt_report"})
       => Cardinality(Reported) = Len(calls) - 1
  /\ pc = "rwt_return" => Cardinality(Reported) = Len(calls)

C1_Witness ==
  /\ pc = "rwt_return"
  /\ numThreads = MaxThreads
  /\ numThreads >= 2
  /\ AllJoined
  /\ Cardinality(Reported) = Len(calls)

\* C2: on a freshly constructed AtomicBenchmark, of any memory order, once
\* RunWithThreads(n) has joined its n workers the shared counter is exactly
\* n * Iterations, whatever the interleaving.
C2_AtomicExactSum ==
  (benchmarks[bi].class = "AtomicBenchmark" /\ AfterJoin)
    => _counter[bi] = numThreads * Iterations

C2_Witness ==
  /\ benchmarks[bi] = ADD_BENCHMARK("AtomicBenchmark", "memory_order_relaxed")
  /\ pc = "rwt_return"
  /\ numThreads = MaxThreads
  /\ numThreads >= 2
  /\ _counter[bi] = MaxThreads * Iterations

\* C3: in a NonAtomicBaseline or AtomicBaseline trial every worker's private
\* counter starts at 0, counts that worker's own increments only, and is
\* exactly Iterations when the worker's RunThread completes.
C3_PrivateCounters ==
  \A w \in DOMAIN thr :
    Class(w) \in {"NonAtomicBaseline", "AtomicBaseline"}
      => /\ thr[w].counter = thr[w].i
         /\ thr[w].i = 0 => thr[w].counter = 0
         /\ thr[w].pc = "done" => thr[w].counter = Iterations

C3_Witness ==
  /\ Len(thr) >= 2
  /\ Class(1) = "NonAtomicBaseline"
  /\ thr[1].pc = "done" /\ thr[1].counter = Iterations
  /\ thr[2].pc = "loop" /\ thr[2].counter = 1

\* C4: on a freshly constructed NonAtomicBenchmark, with ++_counter a read
\* followed by a write, the shared counter never exceeds the number of
\* increments performed, and after a trial of n workers it is at most
\* n * Iterations.
C4_NonAtomicNoOvershoot ==
  benchmarks[bi].class = "NonAtomicBenchmark"
    => /\ _counter[bi] <= Increments(Len(thr))
       /\ AfterJoin => _counter[bi] <= numThreads * Iterations

C4_Witness ==
  /\ benchmarks[bi].class = "NonAtomicBenchmark"
  /\ pc = "rwt_return"
  /\ numThreads = MaxThreads
  /\ numThreads >= 2
  /\ _counter[bi] = numThreads * Iterations

\* The thread counts RunWithThreads was called with on benchmark b, in order.
CallsOf(b) == SelectSeq(calls, LAMBDA c : c[1] = b)

\* Element k of the output is the prefix of the trial call c = <<b, n>>.
IsPrefixOf(k, c) ==
  /\ k \in DOMAIN out
  /\ out[k].kind = "prefix"
  /\ out[k].name = GetName(c[1])
  /\ out[k].numThreads = c[2]

\* Element k of the output is a duration.
IsSuffix(k) == k \in DOMAIN out /\ out[k].kind = "suffix"

\* C5: Run(maxNumThreads) calls RunWithThreads(k) exactly once for each
\* k = 1..maxNumThreads, in increasing order of k, and every worker of a
\* trial has been joined before the next trial (and so any of its workers)
\* begins.
C5_RunSweepsInOrder ==
  /\ \A b \in DOMAIN benchmarks :
       /\ \A k \in DOMAIN CallsOf(b) : CallsOf(b)[k][2] = k
       /\ b < bi => Len(CallsOf(b)) = cfgMax
       /\ (b = bi /\ pc = "Run_for") => Len(CallsOf(b)) = threads - 1
       /\ (b = bi /\ (BeforeEnd \/ AfterJoin))
            => Len(CallsOf(b)) = threads /\ numThreads = threads
  /\ pc = "rwt_return" => AllJoined
  /\ pc \in {"main_for", "Run_for", "rwt_print", "rwt_flush", "rwt_start"}
       => \A w \in DOMAIN thr : thr[w].pc = "done" /\ thr[w].joined

C5_Witness ==
  /\ pc = "main_for"
  /\ bi = 2
  /\ cfgMax = MaxThreads
  /\ cfgMax >= 2
  /\ CallsOf(1) = [k \in 1..MaxThreads |-> <<1, k>>]

\* C6: the benchmarks are run one after another in the order of the
\* collection, the whole sweep of one before the first trial of the next,
\* and every live worker thread belongs to the one trial that is running.
C6_OneTrialAtATime ==
  /\ \A p, q \in DOMAIN calls : p < q => calls[p][1] <= calls[q][1]
  /\ \A b \in DOMAIN benchmarks :
       /\ b < bi => Len(CallsOf(b)) = cfgMax
       /\ b > bi => Len(CallsOf(b)) = 0
  /\ pc \in {"main_for", "Run_for", "exit"}
       => Cardinality(Reported) = Len(calls) /\ Len(out) = 2 * Len(calls)
  /\ \A w \in DOMAIN thr :
       /\ thr[w].this = bi
       /\ calls # << >> /\ calls[Len(calls)] = <<bi, numThreads>>
       /\ w <= numThreads
       /\ pc \notin {"rwt_spawn", "rwt_join"}
            => thr[w].pc = "done" /\ thr[w].joined

C6_Witness ==
  /\ bi = 3
  /\ pc = "rwt_join"
  /\ numThreads = MaxThreads
  /\ Len(thr) >= 2
  /\ thr[1].pc = "loop"
  /\ thr[2].pc = "loop"
  /\ Len(CallsOf(1)) = MaxThreads
  /\ Len(CallsOf(2)) = MaxThreads

\* C7: the prefix of a trial has been written and flushed before any of its
\* workers is spawned, its duration is written only after all its workers
\* have been joined, and the output is prefix, duration, prefix, duration,
\* ... in the order of the trials.
C7_OutputAroundTrial ==
  /\ pc \in {"rwt_print", "rwt_flush"}
       => Len(out) = 2 * Len(calls) - 2 /\ thr = << >>
  /\ (thr # << >> \/ pc \in {"rwt_start", "rwt_spawn", "rwt_join", "rwt_end",
                             "rwt_report"})
       => /\ IsPrefixOf(2 * Len(calls) - 1, <<bi, numThreads>>)
          /\ pc # "rwt_return" => Len(out) = 2 * Len(calls) - 1
  /\ (calls # << >> /\ IsSuffix(2 * Len(calls)))
       => \A w \in DOMAIN thr : thr[w].pc = "done" /\ thr[w].joined
  /\ pc = "rwt_return" => IsSuffix(2 * Len(calls)) /\ AllJoined
  /\ \A k \in DOMAIN out :
       IF k % 2 = 1 THEN IsPrefixOf(k, calls[(k + 1) \div 2]) ELSE IsSuffix(k)
  /\ Len(out) <= 2 * Len(calls)

C7_Witness ==
  /\ pc = "rwt_return"
  /\ numThreads = MaxThreads
  /\ Len(calls) >= 2
  /\ IsPrefixOf(2 * Len(calls) - 1, <<bi, numThreads>>)
  /\ IsSuffix(2 * Len(calls))
  /\ IsSuffix(2 * Len(calls) - 2)

\* The trials of a full sweep with maximum m: benchmark by benchmark, and
\* for each benchmark k = 1..m.
Expected(m) ==
  [q \in 1..(Len(benchmarks) * m) |->
     << ((q - 1) \div m) + 1, ((q - 1) % m) + 1 >>]

\* C8: a full sweep with maximum thread count m executes and reports
\* exactly one trial per (benchmark, k) pair, k in 1..m, ordered by
\* benchmark and then by increasing k: m lines per benchmark.
C8_OneLinePerPair ==
  /\ Len(calls) <= Len(benchmarks) * cfgMax
  /\ \A q \in DOMAIN calls : calls[q] = Expected(cfgMax)[q]
  /\ pc = "exit"
       => /\ calls = Expected(cfgMax)
          /\ Len(out) = 2 * Len(benchmarks) * cfgMax
          /\ \A q \in DOMAIN calls :
               IsPrefixOf(2 * q - 1, Expected(cfgMax)[q]) /\ IsSuffix(2 * q)

C8_Witness ==
  /\ pc = "exit"
  /\ cfgMax = 1
  /\ Len(calls) = Len(benchmarks)
  /\ Len(out) = 2 * Len(benchmarks)
  /\ \A b \in DOMAIN benchmarks : IsPrefixOf(2 * b - 1, <<b, 1>>)

\* The six order labels.
OrderLabels ==
  {"relaxed", "consume", "acquire", "release", "acq_rel", "seq_cst"}

\* C9: GetName returns the same string on every call on one benchmark,
\* different strings on different benchmarks, and on an atomic variant
\* "<base-name> (<order-name>)" with the label of the variant's own order.
C9_NamesDistinctStable ==
  /\ \A p, q \in nameLog : (p[1] = q[1]) <=> (p[2] = q[2])
  /\ \A p \in nameLog :
       LET b == benchmarks[p[1]] IN
         b.class \in {"AtomicBaseline", "AtomicBenchmark"}
           => \E l \in OrderLabels :
                /\ "memory_order_" \o l = b.Order
                /\ p[2] = (IF b.class = "AtomicBaseline"
                             THEN "Atomic Baseline"
                             ELSE "Atomic Benchmark") \o " (" \o l \o ")"

C9_Witness ==
  /\ pc = "exit"
  /\ Cardinality(nameLog) = Len(benchmarks)
  /\ Len(benchmarks) = 14
  /\ Len(calls) > Cardinality(nameLog)

\* The number of worker threads of a whole sweep with maximum m.
Workers(m) == Len(benchmarks) * ((m * (m + 1)) \div 2)

\* The program has returned 0 from main after all its trials, each worker
\* of which returned from RunThread after exactly Iterations increments.
Completed ==
  /\ pc = "exit"
  /\ exitCode = 0
  /\ Len(calls) = Len(benchmarks) * MaxThreads
  /\ Cardinality(Reported) = Len(calls)
  /\ finished = Workers(MaxThreads)
  /\ doneAt = {Iterations}

\* C10: under a fair scheduler every worker performs exactly Iterations
\* increments and finishes, every join returns, and the program completes
\* all its trials and exits with code 0.
C10_Terminates == <>Completed

C10_Witness == Completed /\ thr = << >> /\ now > 0


\* 1 + 2 + ... + k: the workers of the trials 1..k of one benchmark.
Triangle(k) == (k * (k + 1)) \div 2

\* C11: the shared counter of an AtomicBenchmark is not reset between the
\* trials of Run: trial k starts from Iterations * (k-1)*k/2 and leaves
\* Iterations * k*(k+1)/2 once its workers are joined, and a finished sweep
\* of maximum m leaves Iterations * m*(m+1)/2.
C11_AtomicAccumulates ==
  \A b \in DOMAIN benchmarks :
    benchmarks[b].class = "AtomicBenchmark"
      => /\ b < bi => _counter[b] = Iterations * Triangle(cfgMax)
         /\ b > bi => _counter[b] = 0
         /\ (b = bi /\ pc = "Run_for")
              => _counter[b] = Iterations * Triangle(threads - 1)
         /\ (b = bi /\ pc \in {"rwt_print", "rwt_flush", "rwt_start"})
              => _counter[b] = Iterations * Triangle(numThreads - 1)
         /\ (b = bi /\ AfterJoin)
              => _counter[b] = Iterations * Triangle(numThreads)

C11_Witness ==
  /\ bi \in DOMAIN benchmarks
  /\ benchmarks[bi].class = "AtomicBenchmark"
  /\ pc = "rwt_return"
  /\ numThreads = MaxThreads
  /\ numThreads >= 2
  /\ _counter[bi] = Iterations * Triangle(numThreads)
  /\ _counter[bi] > numThreads * Iterations


\* The smaller of two numbers.
Min(a, b) == IF a <= b THEN a ELSE b

\* C12: on a fresh NonAtomicBenchmark, with ++_counter a read followed by a
\* write, a single worker loses no update, while with n >= 2 workers the
\* counter after the join may be anything from Min(Iterations, 2) up to
\* n * Iterations: the exact sum is not guaranteed, and C12_Witness is an
\* interleaving that loses updates.
C12_NonAtomicOutcomes ==
  (benchmarks[bi].class = "NonAtomicBenchmark" /\ AfterJoin)
    => /\ numThreads = 1 => _counter[bi] = Iterations
       /\ numThreads >= 2
            => /\ _counter[bi] >= Min(Iterations, 2)
               /\ _counter[bi] <= numThreads * Iterations

C12_Witness ==
  /\ benchmarks[bi].class = "NonAtomicBenchmark"
  /\ pc = "rwt_return"
  /\ AllJoined
  /\ numThreads >= 2
  /\ Iterations >= 1
  /\ _counter[bi] < numThreads * Iterations


\* This step is a step of worker thread w (not its creation or its join).
StepOf(w) ==
  /\ w \in DOMAIN thr
  /\ Len(thr') = Len(thr)
  /\ thr'[w] # thr[w]
  /\ thr'[w].joined = thr[w].joined

\* C13: a step of a worker thread writes nothing that another thread can
\* reach except the _counter of the benchmark it runs on; workers of the two
\* baseline classes write no _counter at all; and no step of a trial
\* changes the _counter of a benchmark other than the running one.
C13_OnlyOwnCounterWritten ==
  [][ /\ \A b \in CounterOwners :
           _counter'[b] # _counter[b]
             => /\ b = bi
                /\ pc \in {"rwt_spawn", "rwt_join"}
                /\ \E w \in DOMAIN thr : StepOf(w) /\ thr[w].this = b
      /\ \A w \in DOMAIN thr :
           StepOf(w)
             => /\ \A v \in DOMAIN thr : v # w => thr'[v] = thr[v]
                /\ Class(w) \in {"NonAtomicBaseline", "AtomicBaseline"}
                     => _counter' = _counter
                /\ UNCHANGED << pc, bi, cfgMax, maxNumThreads, threads,
                                numThreads, i, j, startTime, endTime,
                                coutBuf, out, exitCode, calls, nameLog >>
    ]_vars

C13_Witness ==
  /\ bi \in DOMAIN benchmarks
  /\ benchmarks[bi].class = "AtomicBenchmark"
  /\ pc = "rwt_join"
  /\ Len(thr) >= 2
  /\ thr[1].i = 1
  /\ thr[2].i = 1
  /\ _counter[bi] > 0
  /\ \E b \in CounterOwners : b < bi /\ _counter[b] > 0
  /\ \E b \in CounterOwners : b > bi /\ _counter[b] = 0


\* The 14 variants in the order the claim gives them.
ExpectedVariants ==
  << <<"NonAtomicBaseline", "none">>,
     <<"NonAtomicBenchmark", "none">>,
     <<"AtomicBaseline", "memory_order_relaxed">>,
     <<"AtomicBaseline", "memory_order_consume">>,
     <<"AtomicBaseline", "memory_order_acquire">>,
     <<"AtomicBaseline", "memory_order_release">>,
     <<"AtomicBaseline", "memory_order_acq_rel">>,
     <<"AtomicBaseline", "memory_order_seq_cst">>,
     <<"AtomicBenchmark", "memory_order_relaxed">>,
     <<"AtomicBenchmark", "memory_order_consume">>,
     <<"AtomicBenchmark", "memory_order_acquire">>,
     <<"AtomicBenchmark", "memory_order_release">>,
     <<"AtomicBenchmark", "memory_order_acq_rel">>,
     <<"AtomicBenchmark", "memory_order_seq_cst">> >>

\* C14: main constructs exactly 14 benchmarks, in the order
\* NonAtomicBaseline, NonAtomicBenchmark, the six AtomicBaseline, the six
\* AtomicBenchmark (one of each per memory order, in the same sequence of
\* orders), and runs them in that order, each with the same maximum thread
\* count (MaxThreads here, for the 10 of the source).
C14_FixedBenchmarkList ==
  /\ Len(benchmarks) = 14
  /\ \A b \in DOMAIN benchmarks :
       <<benchmarks[b].class, benchmarks[b].Order>> = ExpectedVariants[b]
  /\ \A k \in 1..6 : benchmarks[2 + k].Order = benchmarks[8 + k].Order
  /\ \A q \in DOMAIN calls :
       /\ calls[q][1] \in 1..14
       /\ q > 1 => calls[q - 1][1] <= calls[q][1]
  /\ \A w \in DOMAIN thr : thr[w].this = bi
  /\ \A b \in 1..14 : (b < bi) => Len(CallsOf(b)) = MaxThreads
  /\ cfgMax = MaxThreads
  /\ MaxThreads <= SourceMaxNumThreads
  /\ pc \notin {"main_for", "exit"} => maxNumThreads = MaxThreads
  /\ pc = "exit" => bi = 15 /\ Len(calls) = 14 * MaxThreads

C14_Witness ==
  /\ pc = "exit"
  /\ Len(calls) = 14 * MaxThreads
  /\ \A b \in 1..14 :
       /\ calls[b * MaxThreads][1] = b
       /\ IsPrefixOf(2 * b * MaxThreads - 1, <<b, MaxThreads>>)


\* The time stamps of a trial whose duration has been computed.
Stamped ==
  pc \in {"rwt_report", "rwt_return"}
    => /\ startTime < endTime
       /\ endTime < now
       /\ AllJoined

\* What a step may do to the worker threads and to the two time stamps.
Covered ==
  /\ now' = now + 1
  /\ (thr' # thr /\ thr' # << >>)
       => /\ pc \in {"rwt_spawn", "rwt_join"}
          /\ pc' \in {"rwt_spawn", "rwt_join"}
          /\ endTime < startTime
          /\ startTime < now
          /\ UNCHANGED << startTime, endTime >>
  /\ startTime' # startTime
       => /\ pc = "rwt_start"
          /\ thr = << >>
          /\ thr' = << >>
          /\ startTime' = now
          /\ endTime <= now
          /\ UNCHANGED endTime
  /\ endTime' # endTime
       => /\ pc = "rwt_end"
          /\ AllJoined
          /\ endTime' = now
          /\ startTime < now
          /\ UNCHANGED << startTime, thr >>
  /\ (thr' # thr /\ thr' = << >>)
       => /\ pc \in {"rwt_start", "rwt_return"}
          /\ \A w \in DOMAIN thr : thr[w].pc = "done" /\ thr[w].joined
  /\ out' # out /\ pc = "rwt_report"
       => out'[Len(out')] = [kind |-> "suffix", ms |-> endTime - startTime]

\* C15: in RunWithThreads the start time stamp is taken before the first
\* worker is spawned and the end time stamp only after the last worker has
\* been joined: every step that creates, runs or joins a worker of the trial
\* falls strictly between the two stamps, no worker of another trial exists
\* between them, and the reported duration is their difference.
C15_IntervalCoversTrial == []Stamped /\ [][Covered]_vars

C15_Witness ==
  /\ pc = "rwt_return"
  /\ Len(calls) >= 2
  /\ numThreads = MaxThreads
  /\ numThreads >= 2
  /\ AllJoined
  /\ out[Len(out)] = [kind |-> "suffix", ms |-> endTime - startTime]
  /\ endTime - startTime > numThreads * (Iterations + 2)


\* The main thread is inside a trial of an AtomicBenchmark.
AtomicTrial ==
  /\ bi \in DOMAIN benchmarks
  /\ benchmarks[bi].class = "AtomicBenchmark"
  /\ pc \in {"rwt_print", "rwt_flush", "rwt_start", "rwt_spawn", "rwt_join",
             "rwt_end", "rwt_report", "rwt_return"}

\* The counter is its value at the start of the trial (what the benchmark's
\* earlier trials, of 1 .. numThreads - 1 threads, left in it) plus the
\* fetch_adds the trial's workers have completed.
Tally ==
  AtomicTrial
    => /\ _counter[bi] = Iterations * Triangle(numThreads - 1)
                           + Increments(Len(thr))
       /\ pc \in {"rwt_print", "rwt_flush", "rwt_start"}
            => Increments(Len(thr)) = 0

\* A worker's step adds to the counter what it adds to the worker's count of
\* completed iterations, 0 or 1, and no step lowers the counter.
OneByOne ==
  AtomicTrial
    => /\ _counter'[bi] >= _counter[bi]
       /\ _counter'[bi] - _counter[bi] \in {0, 1}
       /\ \A w \in DOMAIN thr :
            StepOf(w) => /\ _counter'[bi] - _counter[bi] = thr'[w].i - thr[w].i
                         /\ thr[w].pc = "loop"
                         /\ LoopTest(thr[w].i) <=> _counter'[bi] = _counter[bi] + 1
       /\ _counter'[bi] # _counter[bi] => \E w \in DOMAIN thr : StepOf(w)

\* C16: in every reachable state of an AtomicBenchmark trial the shared
\* counter equals its value at the start of the trial plus the number of
\* fetch_add operations the trial's workers have completed so far; the
\* counter never decreases and each fetch_add raises it by exactly 1.
C16_CounterTalliesFetchAdds == []Tally /\ [][OneByOne]_vars

C16_Witness ==
  /\ AtomicTrial
  /\ pc = "rwt_join"
  /\ Len(thr) >= 2
  /\ thr[1].pc = "loop" /\ thr[1].i = 1
  /\ thr[2].pc = "loop" /\ thr[2].i = 1
  /\ Iterations * Triangle(numThreads - 1) > 0
  /\ _counter[bi] = Iterations * Triangle(numThreads - 1) + 2


\* The worker threads that have been created and not yet joined.
Live == {w \in DOMAIN thr : ~thr[w].joined}

\* The worker threads still executing RunThread.
Running == {w \in DOMAIN thr : thr[w].pc # "done"}

\* C17: at every point of the program the number of live worker threads is
\* at most the thread count of the trial currently running, which is at most
\* the configured maximum; outside the spawn and join loops of a trial, and
\* so between trials, no worker thread is live.
C17_LiveThreadsBounded ==
  /\ Running \subseteq Live
  /\ Cardinality(Live) <= numThreads
  /\ numThreads <= cfgMax
  /\ pc \in {"rwt_print", "rwt_flush", "rwt_start", "rwt_spawn", "rwt_join",
             "rwt_end", "rwt_report", "rwt_return"}
       => /\ numThreads = threads
          /\ 1 <= numThreads
          /\ maxNumThreads = cfgMax
  /\ pc \notin {"rwt_spawn", "rwt_join"} => Live = {}
  /\ pc = "rwt_spawn" => Live = 1..i
  /\ pc = "rwt_join" => Live = j..numThreads

C17_Witness ==
  /\ pc = "rwt_join"
  /\ cfgMax = MaxThreads
  /\ numThreads = cfgMax
  /\ numThreads >= 2
  /\ Cardinality(Live) = numThreads
  /\ Running = Live
  /\ Len(calls) > MaxThreads


\* 2^n.
RECURSIVE Pow2(_)
Pow2(n) == IF n = 0 THEN 1 ELSE 2 * Pow2(n - 1)

\* The arithmetic of the source's numbers: the sweep 1..10 totals 55 threads,
\* 55 * 500,000,000 = 27,500,000,000 (compared in thousands), 55 < 2^6 and
\* 500,000,000 < 2^29 give a product below 2^35 and so below 2^63, and
\* 500,000,000 is at most 2^31 - 1.
SourceWidths ==
  /\ Triangle(SourceMaxNumThreads) = 55
  /\ SourceIterations % 1000 = 0
  /\ Triangle(SourceMaxNumThreads) * (SourceIterations \div 1000) = 27500000
  /\ Triangle(SourceMaxNumThreads) < Pow2(6)
  /\ SourceIterations < Pow2(29)
  /\ 6 + 29 < 63
  /\ SourceIterations <= (Pow2(30) - 1) + Pow2(30)

\* C18: no integer overflows in the configured run: every shared counter,
\* accumulating across the trials of the sweep 1..MaxThreads, stays within
\* 0 .. Triangle(MaxThreads) * Iterations, every local counter and every
\* worker's loop index within 0 .. Iterations, and with the source's numbers
\* (Iterations = 500,000,000, a sweep of 1..10) these limits are
\* 27,500,000,000 < 2^63 and 500,000,000 < 2^31.
C18_NoOverflow ==
  /\ SourceWidths
  /\ Iterations <= SourceIterations
  /\ MaxThreads <= SourceMaxNumThreads
  /\ \A b \in CounterOwners :
       /\ 0 <= _counter[b]
       /\ _counter[b] <= Triangle(MaxThreads) * Iterations
  /\ \A w \in DOMAIN thr :
       /\ thr[w].i \in 0..Iterations
       /\ thr[w].counter \in 0..Iterations
       /\ thr[w].tmp \in 0..(Triangle(MaxThreads) * Iterations)
  /\ threads \in 0..(MaxThreads + 1)
  /\ i \in 0..MaxThreads

C18_Witness ==
  /\ pc = "exit"
  /\ \E b \in CounterOwners :
       /\ benchmarks[b].class = "AtomicBenchmark"
       /\ _counter[b] = Triangle(MaxThreads) * Iterations
       /\ _counter[b] > MaxThreads * Iterations
  /\ doneAt = {Iterations}


\* C19: Run(0) executes no trial: RunWithThreads is never called, no worker
\* thread is spawned, nothing is printed, and the shared counter of every
\* benchmark Run(0) is called on keeps the value it had.
C19_RunZeroDoesNothing ==
  cfgMax = 0
    => /\ pc \in {"main_for", "Run_for", "exit"}
       /\ calls = << >>
       /\ thr = << >>
       /\ finished = 0
       /\ coutBuf = << >>
       /\ out = << >>
       /\ nameLog = {}
       /\ _counter = [b \in CounterOwners |-> 0]
       /\ pc = "Run_for" => threads = 1 /\ maxNumThreads = 0

C19_Witness ==
  /\ cfgMax = 0
  /\ pc = "exit"
  /\ exitCode = 0
  /\ bi = Len(benchmarks) + 1
  /\ now >= 2 * Len(benchmarks)
  /\ out = << >>

====
